---- MODULE Spec2Model ----
(***************************************************************************)
(* A model of the two virtualizer hooks of react-virtualization:           *)
(*   useDynamicSizeList  (src/src/examples/VirtualizedList.tsx)            *)
(*   useDynamicSizeGrid  (src/unnamed/part_000)                            *)
(* Pixel sizes are modelled as small naturals.  React state is modelled by *)
(* one variable per useState cell; a render (useMemo recomputation and the *)
(* useInsertionEffect of useLatest) is the action Render.                  *)
(***************************************************************************)
EXTENDS Integers, Sequences, FiniteSets, TLC

VARIABLES
    phase,          \* "inputs": engine inputs drawn, memo not yet computed;
                    \* "rendered": the memo holds the window of the inputs;
                    \* "setup": the hook has not been called yet; "failed":
                    \* validateProps threw; "mounted": the hook is live;
                    \* "crashed": a callback threw; "tracking": the
                    \* scroll-activity effect alone
    kind,           \* "list" (useDynamicSizeList) or "grid" (useDynamicSizeGrid)
    props,          \* the props the hook was called with
    rowSizeCache,   \* useState: key -> measured height (a partial function)
    viewport,       \* useState: [height, width] (virtualRowHeight / gridHeight, gridWidth)
    scrollTop,      \* useState: scrollTop
    scrollLeft,     \* useState: scrollLeft (grid)
    rows,           \* useMemo: the row window
    cols,           \* useMemo: the column window (grid)
    latestData,     \* useLatest: the snapshot the measurement callback reads
    container,      \* the scroll element: [present, scrollTop, scrollLeft, height, width]
    react,          \* React's scheduling: [inCommit, dirty, refs]
    events,         \* DOM events dispatched and not yet handled: [scroll]
    frame,          \* callbacks waiting for the next animation frame
    observed,       \* targets of the rows' ResizeObserver in the document:
                    \* key -> the size last delivered for the element (0: none yet)
    lingering,      \* detached elements the rows' ResizeObserver still observes,
                    \* each with the size it delivered last (0: none)
    last,           \* history: the last call of the measurement callback, or
                    \* the render or reorder that was the last step
    spent,          \* the number of events the environment has raised so far
    subscribed,     \* the subscriptions the effects hold
    tracker         \* the scroll-activity effect: isScrolling, its timeout, and
                    \* the time and the transitions of the burst in progress

hookState == <<rowSizeCache, viewport, scrollTop, scrollLeft>>
memo == <<rows, cols>>
dom == <<container, events, frame, observed, lingering>>
effects == <<subscribed, tracker>>
vars == <<phase, kind, props, hookState, memo, latestData, react, dom, last, spent,
          effects>>

-----------------------------------------------------------------------------
(* Bounds of the model *)

MaxRows == 3
MaxCols == 2
MaxSize == 3
MaxOverscan == 1
MaxScroll == 7
MaxViewport == 7
MaxItems == 2
MaxHeight == 2
MaxFrame == 2
MaxEvents == 4
MaxBurst == 3
MaxLate == 2
MaxDelay == 4
MaxFairEvents == 2

\* program constants of the demo, used by the worked example
DemoRowsCount == 100
DemoEstimate == 50
DemoContainerHeight == 600
DEFAULT_OVERSCAN_Y == 3
DEFAULT_OVERSCAN_X == 3
DEFAULT_SCROLLING_DELAY == 150

Keys == 1..MaxRows
Sizes == 1..MaxSize

Max(a, b) == IF a > b THEN a ELSE b
Min(a, b) == IF a < b THEN a ELSE b

\* all sequences over S of length exactly n
SeqsOfLen(S, n) == [1..n -> S]

-----------------------------------------------------------------------------
(* Array.prototype.slice(start, end) on a 0-based array held as a sequence *)

SliceIndex(i, len) == IF i < 0 THEN Max(len + i, 0) ELSE Min(i, len)

Slice(arr, start, end) ==
    LET from == SliceIndex(start, Len(arr))
        to == SliceIndex(end, Len(arr))
    IN  IF from >= to THEN <<>> ELSE SubSeq(arr, from + 1, to)

-----------------------------------------------------------------------------
(* The size resolver and the key function *)

\* getRowKey(index): the demo's (index) => items[index].id
GetRowKey(p, index) == p.items[index + 1]

\* a slip the reorder property must catch: the cache read by index, not by key
GetRowHeightByIndex(p, cache, index) ==
    IF p.hasRowHeight
    THEN p.rowHeight[index + 1]
    ELSE IF (index + 1) \in DOMAIN cache
         THEN cache[index + 1]
         ELSE p.estimateRowHeight

\* getRowHeight(index) of the memo: fixed size, else cached size, else estimate
GetRowHeight(p, cache, index) ==
    IF p.hasRowHeight
    THEN p.rowHeight[index + 1]
    ELSE LET key == GetRowKey(p, index)
         IN  IF key \in DOMAIN cache
             THEN cache[key]
             ELSE p.estimateRowHeight

-----------------------------------------------------------------------------
(* The list's row engine: the loop of useDynamicSizeList's memo *)

ListLoopInit ==
    [totalHeight |-> 0, rowStartIndex |-> 0, rowEndIndex |-> 0, allRows |-> <<>>]

\* a slip the offset property must catch: the offset read after the height is added
ListLoopStepLateOffset(acc, index, key, height, rangeStart, rangeEnd) ==
    [totalHeight |-> acc.totalHeight + height,
     allRows |-> Append(acc.allRows,
                        [key |-> key, index |-> index, height |-> height,
                         offsetTop |-> acc.totalHeight + height]),
     rowStartIndex |-> acc.rowStartIndex,
     rowEndIndex |-> acc.rowEndIndex]

\* one iteration of the for loop
ListLoopStep(acc, index, key, height, rangeStart, rangeEnd) ==
    LET row == [key |-> key, index |-> index, height |-> height,
                offsetTop |-> acc.totalHeight]
    IN  [totalHeight |-> acc.totalHeight + row.height,
         allRows |-> Append(acc.allRows, row),
         rowStartIndex |->
            IF row.offsetTop + row.height < rangeStart
            THEN acc.rowStartIndex + 1 ELSE acc.rowStartIndex,
         rowEndIndex |->
            IF row.offsetTop + row.height < rangeEnd
            THEN acc.rowEndIndex + 1 ELSE acc.rowEndIndex]

\* the iterations from <= index < to of the for loop, in order: one
\* iteration, or the first half of them and then the second half; index
\* `from` is the number of rows the loop has built so far
RECURSIVE ListLoop(_, _, _, _, _, _, _)
ListLoop(acc, from, to, p, cache, rangeStart, rangeEnd) ==
    IF Len(acc.allRows) >= to THEN acc
    ELSE IF to = from + 1
    THEN ListLoopStep(acc, from, GetRowKey(p, from), GetRowHeight(p, cache, from),
                      rangeStart, rangeEnd)
    ELSE LET mid == (from + to) \div 2
         IN  ListLoop(ListLoop(acc, from, mid, p, cache, rangeStart, rangeEnd),
                      mid, to, p, cache, rangeStart, rangeEnd)

\* the overscan margin and the clamp applied after the loop
ListClampStart(rowStartIndex, overscanY) == Max(0, rowStartIndex - overscanY)
ListClampEnd(rowEndIndex, overscanY, rowsCount) == Min(rowsCount - 1, rowEndIndex + overscanY)

ListRows(p, cache, sTop, height) ==
    LET acc == ListLoop(ListLoopInit, 0, p.rowsCount, p, cache, sTop, sTop + height)
        rowStartIndex == ListClampStart(acc.rowStartIndex, p.overscanY)
        rowEndIndex == ListClampEnd(acc.rowEndIndex, p.overscanY, p.rowsCount)
    IN  [virtualRows |-> Slice(acc.allRows, rowStartIndex, rowEndIndex + 1),
         rowStartIndex |-> rowStartIndex,
         rowEndIndex |-> rowEndIndex,
         allRows |-> acc.allRows,
         totalHeight |-> acc.totalHeight]

-----------------------------------------------------------------------------
(* The grid's row engine: the loop of useDynamicSizeGrid's first memo *)

GridLoopInit ==
    [totalHeight |-> 0, rowStartIndex |-> -1, rowEndIndex |-> -1, allRows |-> <<>>]

GridLoopStep(acc, index, key, height, rangeStart, rangeEnd, overscanY, rowsCount) ==
    LET row == [key |-> key, index |-> index, height |-> height,
                offsetTop |-> acc.totalHeight]
    IN  [totalHeight |-> acc.totalHeight + row.height,
         allRows |-> Append(acc.allRows, row),
         rowStartIndex |->
            IF acc.rowStartIndex = -1 /\ row.offsetTop + row.height > rangeStart
            THEN Max(0, index - overscanY) ELSE acc.rowStartIndex,
         rowEndIndex |->
            IF acc.rowEndIndex = -1 /\ row.offsetTop + row.height >= rangeEnd
            THEN Min(rowsCount - 1, index + overscanY) ELSE acc.rowEndIndex]

\* the iterations from <= index < to of the for loop, in order
RECURSIVE GridLoop(_, _, _, _, _, _, _)
GridLoop(acc, from, to, p, cache, rangeStart, rangeEnd) ==
    IF Len(acc.allRows) >= to THEN acc
    ELSE IF to = from + 1
    THEN GridLoopStep(acc, from, GetRowKey(p, from), GetRowHeight(p, cache, from),
                      rangeStart, rangeEnd, p.overscanY, p.rowsCount)
    ELSE LET mid == (from + to) \div 2
         IN  GridLoop(GridLoop(acc, from, mid, p, cache, rangeStart, rangeEnd),
                      mid, to, p, cache, rangeStart, rangeEnd)

GridRows(p, cache, sTop, height) ==
    LET acc == GridLoop(GridLoopInit, 0, p.rowsCount, p, cache, sTop, sTop + height)
    IN  [virtualRows |-> Slice(acc.allRows, acc.rowStartIndex, acc.rowEndIndex + 1),
         rowStartIndex |-> acc.rowStartIndex,
         rowEndIndex |-> acc.rowEndIndex,
         allRows |-> acc.allRows,
         totalHeight |-> acc.totalHeight]

-----------------------------------------------------------------------------
(* The grid's column engine: the loop of useDynamicSizeGrid's second memo *)

GetColumnKey(p, index) == index

ColumnLoopInit ==
    [totalWidth |-> 0, columnStartIndex |-> -1, columnEndIndex |-> -1, allColumns |-> <<>>]

ColumnLoopStep(acc, index, key, width, rangeStart, rangeEnd, overscanX, rowsCount) ==
    LET column == [key |-> key, index |-> index, width |-> width,
                   offsetLeft |-> acc.totalWidth]
    IN  [totalWidth |-> acc.totalWidth + column.width,
         allColumns |-> Append(acc.allColumns, column),
         columnStartIndex |->
            IF acc.columnStartIndex = -1 /\ column.offsetLeft + column.width > rangeStart
            THEN Max(0, index - overscanX) ELSE acc.columnStartIndex,
         columnEndIndex |->
            IF acc.columnEndIndex = -1 /\ column.offsetLeft + column.width >= rangeEnd
            THEN Min(rowsCount - 1, index + overscanX) ELSE acc.columnEndIndex]

\* the iterations from <= index < to of the for loop, in order
RECURSIVE ColumnLoop(_, _, _, _, _, _)
ColumnLoop(acc, from, to, p, rangeStart, rangeEnd) ==
    IF Len(acc.allColumns) >= to THEN acc
    ELSE IF to = from + 1
    THEN ColumnLoopStep(acc, from, GetColumnKey(p, from), p.columnWidth[from + 1],
                        rangeStart, rangeEnd, p.overscanX, p.rowsCount)
    ELSE LET mid == (from + to) \div 2
         IN  ColumnLoop(ColumnLoop(acc, from, mid, p, rangeStart, rangeEnd),
                        mid, to, p, rangeStart, rangeEnd)

GridColumns(p, sLeft, width) ==
    LET acc == ColumnLoop(ColumnLoopInit, 0, p.columnsCount, p, sLeft, sLeft + width)
    IN  [virtualColumns |->
            Slice(acc.allColumns, acc.columnStartIndex, acc.columnEndIndex + 1),
         columnStartIndex |-> acc.columnStartIndex,
         columnEndIndex |-> acc.columnEndIndex,
         allColumns |-> acc.allColumns,
         totalWidth |-> acc.totalWidth]

-----------------------------------------------------------------------------
(* The memos and the snapshot of useLatest *)

NoRows ==
    [virtualRows |-> <<>>, rowStartIndex |-> 0, rowEndIndex |-> 0,
     allRows |-> <<>>, totalHeight |-> 0]

NoColumns ==
    [virtualColumns |-> <<>>, columnStartIndex |-> 0, columnEndIndex |-> 0,
     allColumns |-> <<>>, totalWidth |-> 0]

RowsMemo(k, p, cache, sTop, height) ==
    IF k = "grid" THEN GridRows(p, cache, sTop, height)
                  ELSE ListRows(p, cache, sTop, height)

ColumnsMemo(k, p, sLeft, width) ==
    IF k = "grid" THEN GridColumns(p, sLeft, width) ELSE NoColumns

\* the value useLatest stores at a commit
Snapshot(cache, p, allRows, sTop) ==
    [rowSizeCache |-> cache, items |-> p.items, allRows |-> allRows, scrollTop |-> sTop]

NoSnapshot == [rowSizeCache |-> <<>>, items |-> <<>>, allRows |-> <<>>, scrollTop |-> 0]

NoReact == [inCommit |-> FALSE, dirty |-> FALSE, refs |-> <<>>]

NoReport ==
    [op |-> "none", key |-> 0, attr |-> "", height |-> 0, outcome |-> "none",
     delta |-> 0, above |-> FALSE, scrolledBy |-> 0, scheduled |-> 0]

\* the identity key order: item i has key i + 1
IdentityItems(n) == [i \in 1..n |-> i]

Reverse(seq) == [i \in 1..Len(seq) |-> seq[Len(seq) + 1 - i]]

\* the keys of a sequence of slots, in order and as a set
KeysOf(slots) == [i \in 1..Len(slots) |-> slots[i].key]
KeySet(slots) == {slots[i].key : i \in 1..Len(slots)}

\* SelectSeq(seq, x not in S) without a LAMBDA
RECURSIVE Without(_, _)
Without(seq, S) ==
    IF seq = <<>> THEN <<>>
    ELSE IF Head(seq) \in S THEN Without(Tail(seq), S)
         ELSE <<Head(seq)>> \o Without(Tail(seq), S)

-----------------------------------------------------------------------------
(* The windowing engines on inputs drawn from bounded sets *)

\* the props every input of the engine specification shares
EngineProps(n, heights, overscanY) ==
    [rowsCount |-> n, hasRowHeight |-> TRUE, rowHeight |-> heights,
     hasEstimate |-> FALSE, estimateRowHeight |-> 0,
     items |-> IdentityItems(n), overscanY |-> overscanY,
     columnsCount |-> 0, columnWidth |-> <<>>, overscanX |-> 0,
     scrollingDelay |-> DEFAULT_SCROLLING_DELAY]

\* inputs of a row engine: every count, every fixed-size function
RowInputs ==
    /\ kind \in {"grid", "list"}
    /\ \E n \in 0..MaxRows, o \in 0..MaxOverscan :
         \E heights \in SeqsOfLen(Sizes, n) :
            props = EngineProps(n, heights, o)
    /\ scrollTop \in 0..MaxScroll
    /\ viewport \in [height : 0..MaxViewport, width : {0}]
    /\ scrollLeft = 0

\* inputs of the column engine: every count, every width function
ColumnInputs ==
    /\ kind = "grid"
    /\ \E n \in 0..MaxRows, m \in 0..MaxCols, o \in 0..MaxOverscan :
         \E widths \in SeqsOfLen(Sizes, m) :
            props = [EngineProps(n, [i \in 1..n |-> 1], 0) EXCEPT
                        !.columnsCount = m, !.columnWidth = widths, !.overscanX = o]
    /\ scrollTop = 0
    /\ viewport \in [height : {0}, width : 0..MaxViewport]
    /\ scrollLeft \in 0..MaxScroll

\* the demo list: 100 rows estimated at 50, a container of 600, default overscan
ExampleInputs ==
    /\ kind \in {"list", "grid"}
    /\ props = [EngineProps(DemoRowsCount, <<>>, DEFAULT_OVERSCAN_Y) EXCEPT
                    !.hasRowHeight = FALSE, !.hasEstimate = TRUE,
                    !.estimateRowHeight = DemoEstimate]
    /\ scrollTop \in {0, DemoEstimate}
    /\ viewport = [height |-> DemoContainerHeight, width |-> 0]
    /\ scrollLeft = 0

\* the scroll-activity effect before its first scroll event; scrollingDelay is
\* the value its handler closed over when the effect ran
Idle ==
    [isScrolling |-> FALSE, timeoutId |-> 0, timers |-> {}, elapsed |-> 0,
     events |-> 0, ups |-> 0, downs |-> 0,
     scrollingDelay |-> DEFAULT_SCROLLING_DELAY]

\* nothing has run: no snapshot, no commit, no subscription, no callback waiting
AtRest ==
    /\ latestData = NoSnapshot
    /\ react = NoReact
    /\ subscribed = {}
    /\ tracker = Idle
    /\ events = [scroll |-> FALSE]
    /\ frame = <<>>
    /\ observed = <<>>
    /\ lingering = {}
    /\ last = NoReport
    /\ spent = 0

\* everything but the engine's inputs is at rest
Detached ==
    /\ AtRest
    /\ container = [present |-> FALSE, scrollTop |-> 0, scrollLeft |-> 0, height |-> 0, width |-> 0]

InitWindow ==
    /\ phase = "inputs"
    /\ rowSizeCache = <<>>
    /\ rows = NoRows
    /\ cols = NoColumns
    /\ Detached
    /\ (RowInputs \/ ColumnInputs \/ ExampleInputs)

\* the two useMemo bodies, run on the current state
Recompute ==
    /\ rows' = RowsMemo(kind, props, rowSizeCache, scrollTop, viewport.height)
    /\ cols' = ColumnsMemo(kind, props, scrollLeft, viewport.width)

ComputeWindow ==
    /\ phase = "inputs"
    /\ Recompute
    /\ phase' = "rendered"
    /\ UNCHANGED <<kind, props, hookState, latestData, react, dom, last, spent, effects>>

NextWindow == ComputeWindow

SpecWindow == InitWindow /\ [][NextWindow]_vars

Computed == phase \in {"rendered", "mounted", "crashed"}

-----------------------------------------------------------------------------
(* The scroll element and the rows' elements *)

\* the range the browser keeps scrollTop in: 0 .. scrollHeight - clientHeight,
\* the content being the inner div of height totalHeight
ClampScroll(v, total, height) == Max(0, Min(v, Max(0, total - height)))

\* element.scrollBy(0, delta)
ScrollBy(c, delta, total) ==
    [c EXCEPT !.scrollTop = ClampScroll(c.scrollTop + delta, total, c.height)]

\* the height of the scrolled content while a row of the last commit has the
\* given height: the inner div keeps the total height of that commit, and the
\* row, positioned at its offset of that commit, may reach below it
ScrollExtent(total, row, height) == Max(total, row.offsetTop + height)

\* resizeObserver.observe(element): a new target has no size delivered yet
Observe(obs, el) ==
    IF el \in DOMAIN obs THEN obs
    ELSE [x \in DOMAIN obs \cup {el} |-> IF x = el THEN 0 ELSE obs[x]]

\* the values of the data-row-index attribute: the decimal index the host
\* writes, an index that is no row, or no attribute at all
IndexValues == (0 - 1)..MaxItems
IndexAttr(i) == ToString(i)

\* parseInt(element.getAttribute("data-row-index") || "", 10)
ParseInt(attr) ==
    IF \E i \in IndexValues : IndexAttr(i) = attr
    THEN [isNaN |-> FALSE, value |-> CHOOSE i \in IndexValues : IndexAttr(i) = attr]
    ELSE [isNaN |-> TRUE, value |-> 0]

\* the index of key k in a key order (the host writes it at each commit)
IndexOfKey(items, k) == (CHOOSE i \in 1..Len(items) : items[i] = k) - 1

-----------------------------------------------------------------------------
(* measureRowInner / measureRowHeightInner *)

\* a slip the growth property must catch: the spread of the cache left out
CacheSetAlone(cache, key, height) == [x \in {key} |-> height]

\* ({...cache, [key]: height})
CacheSet(cache, key, height) ==
    [x \in DOMAIN cache \cup {key} |-> IF x = key THEN height ELSE cache[x]]

\* a slip the first-paint property must catch: the check
\* !isResize && typeof cache[key] === "number" left out
MeasureOutcomeEveryPaint(ld, attr, isResize, height) ==
    LET rowIndex == ParseInt(attr)
    IN  IF rowIndex.isNaN THEN "invalid-index"
        ELSE IF rowIndex.value \notin 0..(Len(ld.items) - 1) THEN "throws"
        ELSE LET key == ld.items[rowIndex.value + 1]
             IN  IF key \in DOMAIN ld.rowSizeCache /\ ld.rowSizeCache[key] = height
                 THEN "unchanged"
                 ELSE IF rowIndex.value \notin 0..(Len(ld.allRows) - 1) THEN "throws"
                 ELSE "accepted"

\* which return or throw ends the callback, for a connected element
MeasureOutcome(ld, attr, isResize, height) ==
    LET rowIndex == ParseInt(attr)
    IN  IF rowIndex.isNaN THEN "invalid-index"
        ELSE IF rowIndex.value \notin 0..(Len(ld.items) - 1) THEN "throws"
        ELSE LET key == ld.items[rowIndex.value + 1]
             IN  IF ~isResize /\ key \in DOMAIN ld.rowSizeCache THEN "measured"
                 ELSE IF key \in DOMAIN ld.rowSizeCache /\ ld.rowSizeCache[key] = height
                      THEN "unchanged"
                 ELSE IF rowIndex.value \notin 0..(Len(ld.allRows) - 1) THEN "throws"
                 ELSE "accepted"

\* scheduleDOMUpdate(() => element.scrollBy(0, delta)): the write waits for
\* the frame boundary
ScheduleDOMUpdate(queue, delta) == Append(queue, [op |-> "scrollBy", delta |-> delta])

\* delta !== 0 && scrollTop > row.offsetTop, and the scroll element exists
Compensates(ld, row, delta, c) ==
    delta # 0 /\ ld.scrollTop > row.offsetTop /\ c.present

\* the callback on connected element el carrying attribute attr; obs is the
\* observer's bookkeeping and r React's scheduling state when it runs
MeasureRowInner(op, el, attr, isResize, height, obs, r) ==
    LET ld == latestData
        outcome == MeasureOutcome(ld, attr, isResize, height)
        rowIndex == ParseInt(attr).value
        key == IF outcome \in {"invalid-index", "throws"} THEN 0 ELSE ld.items[rowIndex + 1]
        accepted == outcome = "accepted"
        row == ld.allRows[rowIndex + 1]
        delta == IF accepted THEN height - row.height ELSE 0
        above == accepted /\ ld.scrollTop > row.offsetTop
        compensate == accepted /\ Compensates(ld, row, delta, container)
        scrolled == ScrollBy(container, delta,
                             ScrollExtent(rows.totalHeight, row, height))
    IN  /\ (compensate /\ kind = "list") => Len(frame) < MaxFrame
        /\ phase' = IF outcome = "throws" THEN "crashed" ELSE phase
        /\ observed' = IF key = 0 THEN obs ELSE Observe(obs, el)
        /\ rowSizeCache' = IF accepted THEN CacheSet(rowSizeCache, key, height)
                                       ELSE rowSizeCache
        /\ container' = IF compensate /\ kind = "grid" THEN scrolled ELSE container
        /\ events' = IF compensate /\ kind = "grid"
                     THEN [scroll |-> events.scroll \/ scrolled.scrollTop # container.scrollTop]
                     ELSE events
        /\ frame' = IF compensate /\ kind = "list"
                    THEN ScheduleDOMUpdate(frame, delta)
                    ELSE frame
        /\ react' = IF accepted THEN [r EXCEPT !.dirty = TRUE] ELSE r
        /\ last' = [op |-> op, key |-> key, attr |-> attr, height |-> height,
                    outcome |-> outcome, delta |-> delta, above |-> above,
                    scrolledBy |-> IF compensate /\ kind = "grid" THEN delta ELSE 0,
                    scheduled |-> IF compensate /\ kind = "list" THEN delta ELSE 0]
        /\ UNCHANGED <<kind, props, viewport, scrollTop, scrollLeft, memo, latestData,
                       lingering, effects>>

Live == phase = "mounted"

\* measureRow(element): React attaches the ref of a row mounted by the commit
\* in progress; the height is the element's bounding-rectangle height
MeasureRow ==
    /\ Live
    /\ react.inCommit
    /\ react.refs # <<>>
    /\ spent' = spent
    /\ LET el == Head(react.refs)
           hostAttr == IndexAttr(IndexOfKey(latestData.items, el))
       IN  \E attr \in {hostAttr, "", IndexAttr(0 - 1), IndexAttr(MaxItems)} :
           \E height \in 1..MaxHeight :
              MeasureRowInner("measureRow", el, attr, FALSE, height, observed,
                              [react EXCEPT !.refs = Tail(react.refs)])

\* the rows' ResizeObserver delivers an entry for an observed element in the
\* document whose size is not the one it delivered last
RowResized ==
    /\ Live
    /\ ~react.inCommit
    /\ spent < MaxEvents
    /\ spent' = spent + 1
    /\ \E el \in DOMAIN observed :
       \E height \in 1..MaxHeight :
          /\ height # observed[el]
          /\ MeasureRowInner("resize", el, IndexAttr(IndexOfKey(latestData.items, el)),
                             TRUE, height, [observed EXCEPT ![el] = height], react)

\* the rows' ResizeObserver delivers an entry for an element that left the
\* document, whose size is now 0 and so differs from a size delivered before:
\* !element.isConnected, so it is unobserved
DetachedResized ==
    /\ Live
    /\ ~react.inCommit
    /\ \E x \in lingering :
          /\ x.size # 0
          /\ lingering' = lingering \ {x}
          /\ last' = [NoReport EXCEPT !.op = "resize", !.key = x.el, !.outcome = "detached"]
    /\ UNCHANGED <<phase, kind, props, hookState, memo, latestData, react,
                   container, events, frame, observed, spent, effects>>

-----------------------------------------------------------------------------
(* Rendering *)

\* A render: the memos are recomputed from the current state, useLatest's
\* insertion effect stores the snapshot, the host commits the window to the
\* document (the inner div takes the new total height, rows that left the
\* window are removed, rows that entered it are created) and the refs of
\* the new rows wait to be attached.  React runs it when state or props
\* changed; updates made by the refs of a commit are rendered before any
\* other event is handled.
Render ==
    /\ Live
    /\ react.dirty
    /\ react.refs = <<>>
    /\ Recompute
    /\ latestData' = Snapshot(rowSizeCache, props, rows'.allRows, scrollTop)
    /\ LET shown == KeySet(rows'.virtualRows)
           laidOut == [container EXCEPT
                          !.scrollTop = ClampScroll(container.scrollTop,
                                                    rows'.totalHeight, container.height)]
       IN  /\ container' = laidOut
           /\ events' = [scroll |-> events.scroll \/ laidOut.scrollTop # container.scrollTop]
           /\ observed' = [el \in DOMAIN observed \cap shown |-> observed[el]]
           /\ lingering' = lingering \cup {[el |-> el, size |-> observed[el]] :
                                                el \in DOMAIN observed \ shown}
           /\ react' = [inCommit |-> TRUE, dirty |-> FALSE,
                        refs |-> Without(KeysOf(rows'.virtualRows), KeySet(rows.virtualRows))]
    /\ last' = [NoReport EXCEPT !.op = "render"]
    /\ UNCHANGED <<phase, kind, props, hookState, frame, spent, effects>>

\* the commit is over: every ref is attached and nothing was updated
EndCommit ==
    /\ Live
    /\ react.inCommit
    /\ react.refs = <<>>
    /\ ~react.dirty
    /\ react' = [react EXCEPT !.inCommit = FALSE]
    /\ last' = NoReport
    /\ UNCHANGED <<phase, kind, props, hookState, memo, latestData, dom, spent, effects>>

-----------------------------------------------------------------------------
(* Scrolling and resizing of the scroll element *)

\* the user scrolls the container; the browser dispatches a scroll event
UserScroll ==
    /\ Live
    /\ ~react.inCommit
    /\ spent < MaxEvents
    /\ spent' = spent + 1
    /\ container.present
    /\ \E v \in 0..Max(0, rows.totalHeight - container.height) :
          /\ v # container.scrollTop
          /\ container' = [container EXCEPT !.scrollTop = v]
    /\ events' = [scroll |-> TRUE]
    /\ last' = NoReport
    /\ UNCHANGED <<phase, kind, props, hookState, memo, latestData, react,
                   frame, observed, lingering, effects>>

\* handleScroll of the scroll-position effect
HandleScroll(c) == [scrollTop |-> c.scrollTop, scrollLeft |-> c.scrollLeft]

\* rafThrottle(handleScroll): a call while one is waiting for the frame is dropped
RafThrottle(queue) ==
    IF \E i \in 1..Len(queue) : queue[i].op = "handleScroll"
    THEN queue
    ELSE Append(queue, [op |-> "handleScroll", delta |-> 0])

\* the scroll-position listener on the scroll element c: the grid calls
\* handleScroll, the list its throttled version
ScrollListener(c) ==
    IF kind = "grid"
    THEN /\ scrollTop' = HandleScroll(c).scrollTop
         /\ scrollLeft' = HandleScroll(c).scrollLeft
         /\ react' = [react EXCEPT !.dirty = \/ react.dirty
                                             \/ scrollTop' # scrollTop
                                             \/ scrollLeft' # scrollLeft]
         /\ frame' = frame
    ELSE /\ frame' = RafThrottle(frame)
         /\ UNCHANGED <<scrollTop, scrollLeft, react>>

\* the browser dispatches the scroll event that is pending
OnScroll ==
    /\ Live
    /\ ~react.inCommit
    /\ "scroll" \in subscribed
    /\ events.scroll
    /\ events' = [scroll |-> FALSE]
    /\ ScrollListener(container)
    /\ last' = NoReport
    /\ UNCHANGED <<phase, kind, props, rowSizeCache, viewport, memo,
                   latestData, container, observed, lingering, spent, effects>>

\* the callbacks of one animation frame, in the order they were requested
RECURSIVE RunFrame(_, _, _)
RunFrame(queue, st, total) ==
    IF queue = <<>> THEN st
    ELSE LET cb == Head(queue)
             next ==
                IF cb.op = "handleScroll"
                THEN [st EXCEPT !.scrollTop = HandleScroll(st.container).scrollTop]
                ELSE LET scrolled == ScrollBy(st.container, cb.delta, total)
                     IN  [st EXCEPT !.container = scrolled,
                                    !.scrolled = st.scrolled
                                        \/ scrolled.scrollTop # st.container.scrollTop]
         IN  RunFrame(Tail(queue), next, total)

AnimationFrame ==
    /\ Live
    /\ ~react.inCommit
    /\ frame # <<>>
    /\ LET st == RunFrame(frame,
                          [container |-> container, scrollTop |-> scrollTop,
                           scrolled |-> FALSE],
                          rows.totalHeight)
       IN  /\ container' = st.container
           /\ scrollTop' = st.scrollTop
           /\ events' = [scroll |-> events.scroll \/ st.scrolled]
           /\ react' = [react EXCEPT !.dirty = react.dirty \/ st.scrollTop # scrollTop]
    /\ frame' = <<>>
    /\ last' = NoReport
    /\ UNCHANGED <<phase, kind, props, rowSizeCache, viewport, scrollLeft, memo,
                   latestData, observed, lingering, spent, effects>>

\* the container's ResizeObserver delivers the container's size
ContainerResized ==
    /\ Live
    /\ ~react.inCommit
    /\ "resize" \in subscribed
    /\ container.present
    /\ viewport' = IF kind = "grid"
                   THEN [height |-> container.height, width |-> container.width]
                   ELSE [viewport EXCEPT !.height = container.height]
    /\ viewport' # viewport
    /\ react' = [react EXCEPT !.dirty = TRUE]
    /\ last' = NoReport
    /\ UNCHANGED <<phase, kind, props, rowSizeCache, scrollTop, scrollLeft, memo,
                   latestData, dom, spent, effects>>

\* the host reverses its items: getRowKey is a new function over the same keys
ReverseItems ==
    /\ Live
    /\ ~react.inCommit
    /\ spent < MaxEvents
    /\ spent' = spent + 1
    /\ props' = [props EXCEPT !.items = Reverse(props.items)]
    /\ react' = [react EXCEPT !.dirty = TRUE]
    /\ last' = [NoReport EXCEPT !.op = "reorder"]
    /\ UNCHANGED <<phase, kind, hookState, memo, latestData, dom, effects>>

\* the host drops its last item or adds an item at the end: rowsCount and
\* getRowKey change together
ChangeCount ==
    /\ Live
    /\ ~react.inCommit
    /\ spent < MaxEvents
    /\ spent' = spent + 1
    /\ \/ /\ props.rowsCount > 0
          /\ props' = [props EXCEPT !.rowsCount = @ - 1,
                                    !.items = SubSeq(@, 1, Len(@) - 1)]
       \/ /\ props.rowsCount < MaxItems
          /\ \E k \in 1..MaxItems :
                /\ \A i \in 1..Len(props.items) : props.items[i] # k
                /\ props' = [props EXCEPT !.rowsCount = @ + 1,
                                          !.items = Append(@, k)]
    /\ react' = [react EXCEPT !.dirty = TRUE]
    /\ last' = [NoReport EXCEPT !.op = "count"]
    /\ UNCHANGED <<phase, kind, hookState, memo, latestData, dom, effects>>

-----------------------------------------------------------------------------
(* Construction of the hook *)

\* a slip the validation property must catch: only rowHeight is looked at
ValidatePropsRowHeightOnly(p) == p.hasRowHeight

\* validateProps(props): TRUE when it returns, FALSE when it throws
ValidateProps(p) == ~(~p.hasRowHeight /\ ~p.hasEstimate)

\* the subscriptions of the three effects: the container's ResizeObserver,
\* the scroll-position listener and the scroll-activity listener
Subscriptions == {"resize", "scroll", "activity"}

\* what the three effects subscribe to when they run: nothing when
\* getScrollElement() returns null
Subscribe(c) == IF c.present THEN Subscriptions ELSE {}

\* the first call of the hook: the useState initial values, the memos, the
\* snapshot; its commit, in which the effects subscribe and the refs of the
\* rows of the first window wait to be attached
FirstRender(k, p) ==
    LET first == RowsMemo(k, p, <<>>, 0, 0)
    IN  [rows |-> first,
         cols |-> ColumnsMemo(k, p, 0, 0),
         latestData |-> Snapshot(<<>>, p, first.allRows, 0),
         react |-> [inCommit |-> TRUE, dirty |-> FALSE,
                    refs |-> KeysOf(first.virtualRows)]]

\* the props of a host that measures its rows: an estimate of one unit
MeasuredProps(n, overscanY) ==
    [rowsCount |-> n, hasRowHeight |-> FALSE, rowHeight |-> <<>>,
     hasEstimate |-> TRUE, estimateRowHeight |-> 1,
     items |-> IdentityItems(n), overscanY |-> overscanY,
     columnsCount |-> 0, columnWidth |-> <<>>, overscanX |-> 0,
     scrollingDelay |-> DEFAULT_SCROLLING_DELAY]

\* the props of a host: a fixed-size function, an estimate, both or neither
SetupProps ==
    {[EngineProps(MaxItems, heights, o) EXCEPT
         !.hasRowHeight = fixed, !.rowHeight = IF fixed THEN heights ELSE <<>>,
         !.hasEstimate = estimated,
         !.estimateRowHeight = IF estimated THEN estimate ELSE 0] :
       heights \in SeqsOfLen(Sizes, MaxItems), o \in 0..MaxOverscan,
       fixed \in BOOLEAN, estimated \in BOOLEAN, estimate \in Sizes}

\* before the hook is called for the first time
InitSetup ==
    /\ phase = "setup"
    /\ kind \in {"grid", "list"}
    /\ props \in SetupProps
    /\ rowSizeCache = <<>>
    /\ viewport = [height |-> 0, width |-> 0]
    /\ scrollTop = 0
    /\ scrollLeft = 0
    /\ rows = NoRows
    /\ cols = NoColumns
    /\ container = [present |-> TRUE, scrollTop |-> 0, scrollLeft |-> 0,
                    height |-> 1, width |-> 1]
    /\ AtRest

\* the host renders for the first time: the hook validates its props, and
\* throws, before it does anything else
Mount ==
    /\ phase = "setup"
    /\ IF ValidateProps(props)
       THEN LET first == FirstRender(kind, props)
            IN  /\ phase' = "mounted"
                /\ rows' = first.rows
                /\ cols' = first.cols
                /\ latestData' = first.latestData
                /\ react' = first.react
                /\ subscribed' = Subscribe(container)
       ELSE /\ phase' = "failed"
            /\ UNCHANGED <<memo, latestData, react, subscribed>>
    /\ UNCHANGED <<kind, props, hookState, dom, last, spent, tracker>>

NextSetup == Mount

SpecSetup == InitSetup /\ [][NextSetup]_vars

-----------------------------------------------------------------------------
(* The scroll-activity effect *)

\* setTimeout(callback, delay) and clearTimeout(id) on the pending timeouts
SetTimeout(timers, id, delay) == timers \cup {[id |-> id, left |-> delay]}
ClearTimeout(timers, id) == {t \in timers : t.id # id}

\* a slip the debounce property must catch: the pending timeout is not cleared
HandleActivityNoClear(t, scrollingDelay) ==
    LET id == t.events + 1
    IN  [t EXCEPT !.isScrolling = TRUE,
                  !.timeoutId = id,
                  !.timers = SetTimeout(t.timers, id, scrollingDelay),
                  !.elapsed = 0,
                  !.events = id,
                  !.ups = IF t.isScrolling THEN t.ups ELSE t.ups + 1]

\* handleScroll of the scroll-activity effect: setIsScrolling(true), the
\* pending timeout cleared, a new one set
HandleActivity(t, scrollingDelay) ==
    LET id == t.events + 1
        cleared == IF t.timeoutId # 0 THEN ClearTimeout(t.timers, t.timeoutId)
                                      ELSE t.timers
    IN  [t EXCEPT !.isScrolling = TRUE,
                  !.timeoutId = id,
                  !.timers = SetTimeout(cleared, id, scrollingDelay),
                  !.elapsed = 0,
                  !.events = id,
                  !.ups = IF t.isScrolling THEN t.ups ELSE t.ups + 1]

\* everything but the scroll-activity effect
hook == <<phase, kind, props, hookState, memo, latestData, react, dom, last, spent,
          subscribed>>

\* a scroll event of a burst reaches the listener: the first event, or one
\* that follows the previous event by less than scrollingDelay
ActivityScroll ==
    /\ phase = "tracking"
    /\ "activity" \in subscribed
    /\ tracker.events < MaxBurst
    /\ tracker.events = 0 \/ tracker.elapsed < tracker.scrollingDelay
    /\ tracker' = HandleActivity(tracker, tracker.scrollingDelay)
    /\ UNCHANGED hook

\* a millisecond passes; a timeout that is due may still be waiting to run
Tick ==
    /\ phase = "tracking"
    /\ tracker.events > 0
    /\ tracker.elapsed < tracker.scrollingDelay + MaxLate
    /\ tracker' = [tracker EXCEPT
                      !.elapsed = @ + 1,
                      !.timers = {[t EXCEPT !.left = Max(0, @ - 1)] : t \in @}]
    /\ UNCHANGED hook

\* a timeout that is due runs: setIsScrolling(false)
Timeout ==
    /\ phase = "tracking"
    /\ \E t \in tracker.timers :
          /\ t.left = 0
          /\ tracker' = [tracker EXCEPT
                            !.isScrolling = FALSE,
                            !.timers = @ \ {t},
                            !.downs = IF tracker.isScrolling THEN @ + 1 ELSE @]
    /\ UNCHANGED hook

\* the effect has subscribed and no scroll event has happened yet
InitTracker ==
    /\ phase = "tracking"
    /\ kind \in {"grid", "list"}
    /\ \E delay \in 1..MaxDelay :
          props = [MeasuredProps(0, 0) EXCEPT !.scrollingDelay = delay]
    /\ rowSizeCache = <<>>
    /\ viewport = [height |-> 0, width |-> 0]
    /\ scrollTop = 0
    /\ scrollLeft = 0
    /\ rows = FirstRender(kind, props).rows
    /\ cols = FirstRender(kind, props).cols
    /\ latestData = FirstRender(kind, props).latestData
    /\ react = NoReact
    /\ container = [present |-> TRUE, scrollTop |-> 0, scrollLeft |-> 0,
                    height |-> 1, width |-> 1]
    /\ subscribed = Subscriptions
    /\ tracker = [Idle EXCEPT !.scrollingDelay = props.scrollingDelay]
    /\ events = [scroll |-> FALSE]
    /\ frame = <<>>
    /\ observed = <<>>
    /\ lingering = {}
    /\ last = NoReport
    /\ spent = 0

NextTracker == ActivityScroll \/ Tick \/ Timeout

\* time passes and a timeout that is due is run
SpecTracker ==
    InitTracker /\ [][NextTracker]_vars /\ WF_vars(Tick) /\ WF_vars(Timeout)

-----------------------------------------------------------------------------
(* The mounted hook *)

\* the state once the hook has run for the first time and its effects have
\* subscribed: the useState initial values, the first window, its commit
Init ==
    /\ phase = "mounted"
    /\ kind \in {"grid", "list"}
    /\ \E o \in 0..MaxOverscan : props = MeasuredProps(MaxItems, o)
    /\ rowSizeCache = <<>>
    /\ viewport = [height |-> 0, width |-> 0]
    /\ scrollTop = 0
    /\ scrollLeft = 0
    /\ rows = FirstRender(kind, props).rows
    /\ cols = FirstRender(kind, props).cols
    /\ latestData = FirstRender(kind, props).latestData
    /\ react = FirstRender(kind, props).react
    /\ container = [present |-> TRUE, scrollTop |-> 0, scrollLeft |-> 0,
                    height |-> 1, width |-> 1]
    /\ subscribed = Subscriptions
    /\ tracker = Idle
    /\ events = [scroll |-> FALSE]
    /\ frame = <<>>
    /\ observed = <<>>
    /\ lingering = {}
    /\ last = NoReport
    /\ spent = 0

Next ==
    \/ MeasureRow
    \/ RowResized
    \/ DetachedResized
    \/ Render
    \/ EndCommit
    \/ UserScroll
    \/ OnScroll
    \/ AnimationFrame
    \/ ContainerResized
    \/ ReverseItems

Spec == Init /\ [][Next]_vars

\* the event loop runs what is pending: React finishes its renders and
\* commits, the browser dispatches the scroll event, runs the frame's
\* callbacks and delivers the entries of the ResizeObservers; the user's
\* actions and the rows' changes of size are not owed.  The hook starts
\* without overscan, so that a row leaves the document as soon as it leaves
\* the viewport, and the user and the rows act MaxFairEvents times.
\* the state of Init for one overscan, with so many of the events of the
\* environment counted as spent already
InitWith(overscanY, used) ==
    /\ phase = "mounted"
    /\ kind \in {"grid", "list"}
    /\ props = MeasuredProps(MaxItems, overscanY)
    /\ rowSizeCache = <<>>
    /\ viewport = [height |-> 0, width |-> 0]
    /\ scrollTop = 0
    /\ scrollLeft = 0
    /\ rows = FirstRender(kind, props).rows
    /\ cols = FirstRender(kind, props).cols
    /\ latestData = FirstRender(kind, props).latestData
    /\ react = FirstRender(kind, props).react
    /\ container = [present |-> TRUE, scrollTop |-> 0, scrollLeft |-> 0,
                    height |-> 1, width |-> 1]
    /\ subscribed = Subscriptions
    /\ tracker = Idle
    /\ events = [scroll |-> FALSE]
    /\ frame = <<>>
    /\ observed = <<>>
    /\ lingering = {}
    /\ last = NoReport
    /\ spent = used

InitFair == InitWith(0, MaxEvents - MaxFairEvents)

SpecFair ==
    /\ InitFair
    /\ [][Next]_vars
    /\ WF_vars(MeasureRow \/ Render \/ EndCommit)
    /\ WF_vars(OnScroll)
    /\ WF_vars(AnimationFrame)
    /\ WF_vars(ContainerResized)
    /\ WF_vars(DetachedResized)

\* the mounted hook of a host whose number of items changes; with overscan
\* every row is rendered and measured at the start
NextCount == Next \/ ChangeCount

InitCount == InitWith(MaxOverscan, MaxEvents - MaxFairEvents)

SpecCount == InitCount /\ [][NextCount]_vars

-----------------------------------------------------------------------------
(* Scroll events within a frame *)

\* the scroll source moves the container and delivers the scroll event to the
\* listener at once, before the browser renders a frame
ScrollDelivered ==
    /\ Live
    /\ ~react.inCommit
    /\ "scroll" \in subscribed
    /\ container.present
    /\ ~events.scroll
    /\ spent < MaxEvents
    /\ spent' = spent + 1
    /\ \E v \in 0..Max(0, rows.totalHeight - container.height) :
          LET c == [container EXCEPT !.scrollTop = v]
          IN  /\ v # container.scrollTop
              /\ container' = c
              /\ ScrollListener(c)
    /\ last' = [NoReport EXCEPT
                   !.op = "scroll",
                   !.outcome = IF scrollTop' # scrollTop THEN "updated" ELSE "throttled"]
    /\ UNCHANGED <<phase, kind, props, rowSizeCache, viewport, memo, latestData,
                   events, observed, lingering, effects>>

NextScroll == Next \/ ScrollDelivered

SpecScroll == InitFair /\ [][NextScroll]_vars

-----------------------------------------------------------------------------
(* Teardown of the hook *)

\* the cleanup of the scroll-activity effect: the pending timeout is cleared
ActivityCleanup(t) ==
    [t EXCEPT !.timers = IF t.timeoutId # 0 THEN ClearTimeout(t.timers, t.timeoutId)
                                            ELSE t.timers]

\* the scroll-activity effect runs again: its handler is a new closure, with
\* no timeout of its own and the scrollingDelay of this render; isScrolling is
\* state of the component and stays as it is
ActivitySetup(t, p) ==
    [t EXCEPT !.timeoutId = 0, !.scrollingDelay = p.scrollingDelay]

\* useResizeObserver when the hook unmounts: the observer is disconnected
UseResizeObserverCleanup(detached) == {}

\* the rows' observer when the hook unmounts: the list's is the one of
\* useResizeObserver, the grid's is a memoised object nothing disconnects,
\* which goes on observing the rows, now detached
RowsObserverCleanup(k, obs, detached) ==
    IF k = "list" THEN UseResizeObserverCleanup(detached)
    ELSE detached \cup {[el |-> el, size |-> obs[el]] : el \in DOMAIN obs}

\* the host unmounts: React runs the cleanup of every effect and removes the
\* rows from the document; callbacks handed to the frame stay where they are
Teardown ==
    /\ phase \in {"mounted", "tracking"}
    /\ ~react.inCommit
    /\ phase' = "unmounted"
    /\ subscribed' = {}
    /\ tracker' = ActivityCleanup(tracker)
    /\ observed' = <<>>
    /\ lingering' = RowsObserverCleanup(kind, observed, lingering)
    /\ react' = NoReact
    /\ last' = NoReport
    /\ UNCHANGED <<kind, props, hookState, memo, latestData, container, events,
                   frame, spent>>

\* a frame requested before the unmount: the throttled handleScroll sets the
\* state of a component that is gone, which React drops, and a scheduled
\* scrollBy scrolls the container
LateFrame ==
    /\ phase = "unmounted"
    /\ frame # <<>>
    /\ LET st == RunFrame(frame,
                          [container |-> container, scrollTop |-> scrollTop,
                           scrolled |-> FALSE],
                          rows.totalHeight)
       IN  /\ container' = st.container
           /\ events' = [scroll |-> events.scroll \/ st.scrolled]
    /\ frame' = <<>>
    /\ last' = NoReport
    /\ UNCHANGED <<phase, kind, props, hookState, memo, latestData, react,
                   observed, lingering, spent, effects>>

\* the grid's observer delivers the entry of a row the unmount detached:
\* !element.isConnected, so the row is unobserved
LateRowReport ==
    /\ phase = "unmounted"
    /\ \E x \in lingering :
          /\ x.size # 0
          /\ lingering' = lingering \ {x}
          /\ last' = [NoReport EXCEPT !.op = "resize", !.key = x.el, !.outcome = "detached"]
    /\ UNCHANGED <<phase, kind, props, hookState, memo, latestData, react,
                   container, events, frame, observed, spent, effects>>

InitTeardown == InitFair \/ InitTracker

NextTeardown == Next \/ NextTracker \/ Teardown \/ LateFrame \/ LateRowReport

SpecTeardown == InitTeardown /\ [][NextTeardown]_vars

-----------------------------------------------------------------------------
(* A scroll element that is not always there *)

\* getScrollElement() starts to return null, and to return the element again
ContainerLost ==
    /\ Live
    /\ ~react.inCommit
    /\ container.present
    /\ container' = [container EXCEPT !.present = FALSE]
    /\ last' = NoReport
    /\ UNCHANGED <<phase, kind, props, hookState, memo, latestData, react, events,
                   frame, observed, lingering, spent, effects>>

ContainerFound ==
    /\ Live
    /\ ~react.inCommit
    /\ ~container.present
    /\ container' = [container EXCEPT !.present = TRUE]
    /\ last' = NoReport
    /\ UNCHANGED <<phase, kind, props, hookState, memo, latestData, react, events,
                   frame, observed, lingering, spent, effects>>

\* the host passes another getScrollElement function: the three effects, whose
\* only dependency it is, are cleaned up and run again; the scroll effect calls
\* handleScroll() once when the element is there
Resubscribe ==
    /\ phase \in {"mounted", "tracking"}
    /\ ~react.inCommit
    /\ spent < MaxEvents
    /\ spent' = spent + 1
    /\ subscribed' = Subscribe(container)
    /\ tracker' = ActivitySetup(ActivityCleanup(tracker), props)
    /\ scrollTop' = IF container.present THEN HandleScroll(container).scrollTop
                                         ELSE scrollTop
    /\ scrollLeft' = IF container.present /\ kind = "grid"
                     THEN HandleScroll(container).scrollLeft ELSE scrollLeft
    /\ react' = [react EXCEPT !.dirty = TRUE]
    /\ last' = [NoReport EXCEPT !.op = "setup"]
    /\ UNCHANGED <<phase, kind, props, rowSizeCache, viewport, memo, latestData,
                   dom>>

\* before the first call of a hook whose scroll element may be missing
InitContainer ==
    /\ phase = "setup"
    /\ kind \in {"grid", "list"}
    /\ props = MeasuredProps(MaxItems, 0)
    /\ rowSizeCache = <<>>
    /\ viewport = [height |-> 0, width |-> 0]
    /\ scrollTop = 0
    /\ scrollLeft = 0
    /\ rows = NoRows
    /\ cols = NoColumns
    /\ \E there \in BOOLEAN :
          container = [present |-> there, scrollTop |-> 0, scrollLeft |-> 0,
                       height |-> 1, width |-> 1]
    /\ latestData = NoSnapshot
    /\ react = NoReact
    /\ subscribed = {}
    /\ tracker = Idle
    /\ events = [scroll |-> FALSE]
    /\ frame = <<>>
    /\ observed = <<>>
    /\ lingering = {}
    /\ last = NoReport
    /\ spent = MaxEvents - MaxFairEvents

NextContainer == Mount \/ Next \/ ContainerLost \/ ContainerFound \/ Resubscribe

\* the event loop runs what is pending; the host owes no new accessor
SpecContainer ==
    /\ InitContainer
    /\ [][NextContainer]_vars
    /\ WF_vars(Mount)
    /\ WF_vars(MeasureRow \/ Render \/ EndCommit)
    /\ WF_vars(OnScroll)
    /\ WF_vars(AnimationFrame)
    /\ WF_vars(ContainerResized)

-----------------------------------------------------------------------------
(* The scroll-activity effect of a host that changes its props *)

\* the host renders with another scrollingDelay: the effect depends on
\* getScrollElement alone and does not run again, so the handler keeps the
\* delay it closed over
DelayChanged ==
    /\ phase = "tracking"
    /\ spent < MaxEvents
    /\ spent' = spent + 1
    /\ \E delay \in 1..MaxDelay :
          /\ delay # props.scrollingDelay
          /\ props' = [props EXCEPT !.scrollingDelay = delay]
    /\ last' = NoReport
    /\ UNCHANGED <<phase, kind, hookState, memo, latestData, react, dom, effects>>

NextActivity == NextTracker \/ Resubscribe \/ DelayChanged

\* time passes and a timeout that is due is run
SpecActivity ==
    InitTracker /\ [][NextActivity]_vars /\ WF_vars(Tick) /\ WF_vars(Timeout)

-----------------------------------------------------------------------------
(* Properties of the windowing engines *)

\* the sum of sizes[from] .. sizes[to]
RECURSIVE SumOf(_, _, _)
SumOf(sizes, from, to) ==
    IF to < from THEN 0
    ELSE IF to = from THEN sizes[from]
    ELSE LET mid == (from + to) \div 2
         IN  SumOf(sizes, from, mid) + SumOf(sizes, mid + 1, to)

SumHeights(all) == SumOf([i \in 1..Len(all) |-> all[i].height], 1, Len(all))
SumWidths(all) == SumOf([i \in 1..Len(all) |-> all[i].width], 1, Len(all))

\* C1: after every recomputation of the list rows, the grid rows and the grid
\* columns there is one slot per index, the first offset is 0, each next offset
\* is the previous offset plus the previous size, and the total extent is the
\* sum of the sizes of all slots.
C1_OffsetsAdditive ==
    Computed =>
        /\ Len(rows.allRows) = props.rowsCount
        /\ \A i \in 1..Len(rows.allRows) :
              /\ rows.allRows[i].index = i - 1
              /\ rows.allRows[i].offsetTop =
                    IF i = 1 THEN 0
                    ELSE rows.allRows[i - 1].offsetTop + rows.allRows[i - 1].height
        /\ rows.totalHeight = SumHeights(rows.allRows)
        /\ kind = "grid" =>
              /\ Len(cols.allColumns) = props.columnsCount
              /\ \A i \in 1..Len(cols.allColumns) :
                    /\ cols.allColumns[i].index = i - 1
                    /\ cols.allColumns[i].offsetLeft =
                          IF i = 1 THEN 0
                          ELSE cols.allColumns[i - 1].offsetLeft + cols.allColumns[i - 1].width
              /\ cols.totalWidth = SumWidths(cols.allColumns)

\* a recomputation over several slots of different, non-zero sizes
C1_Witness ==
    /\ Computed
    /\ Len(rows.allRows) = MaxRows
    /\ rows.allRows[1].height = 1
    /\ rows.allRows[2].height = 2
    /\ rows.allRows[3].offsetTop = 3
    /\ rows.totalHeight > 3

\* C2: whenever count > 0 the row window satisfies
\* 0 <= startIndex <= endIndex <= count - 1 and the visible slice is not empty.
C2_WindowContained ==
    (Computed /\ props.rowsCount > 0) =>
        /\ 0 <= rows.rowStartIndex
        /\ rows.rowStartIndex <= rows.rowEndIndex
        /\ rows.rowEndIndex <= props.rowsCount - 1
        /\ rows.virtualRows # <<>>

\* the indices with offset + size > x, and with offset + size >= x
IndicesPast(all, x) ==
    {i \in 0..(Len(all) - 1) : all[i + 1].offsetTop + all[i + 1].height > x}
IndicesReaching(all, x) ==
    {i \in 0..(Len(all) - 1) : all[i + 1].offsetTop + all[i + 1].height >= x}
Least(S) == CHOOSE i \in S : \A j \in S : i <= j

\* C3: startIndex = max(0, s - overscan) with s the first index whose slot
\* ends strictly after scrollOffset, endIndex = min(count - 1, e + overscan) with
\* e the first index whose slot ends at or after scrollOffset + viewportExtent;
\* the demo list at scrollOffset 0 has startIndex 0 and endIndex 14.
C3_StartIndex ==
    LET past == IndicesPast(rows.allRows, scrollTop)
    IN  (Computed /\ past # {}) =>
            rows.rowStartIndex = Max(0, Least(past) - props.overscanY)

C3_EndIndex ==
    LET reaching == IndicesReaching(rows.allRows, scrollTop + viewport.height)
    IN  (Computed /\ reaching # {}) =>
            rows.rowEndIndex = Min(props.rowsCount - 1, Least(reaching) + props.overscanY)

C3_Example ==
    (Computed /\ props.rowsCount = DemoRowsCount /\ scrollTop = 0) =>
        (rows.rowStartIndex = 0 /\ rows.rowEndIndex = 14)

C3_WindowIndices == C3_StartIndex /\ C3_EndIndex /\ C3_Example

-----------------------------------------------------------------------------
(* Properties of the size reports *)

Reports == {"measureRow", "resize"}

\* C4: an accepted report with delta # 0 for a slot the scroll offset is past
\* scrolls the container by exactly delta within the handling of the report
\* (the browser keeps the result inside the scroll range); any other accepted
\* report leaves the scroll position alone; either way the cache then maps
\* the key to the reported size.
C4_Compensation ==
    [][(last'.op \in Reports /\ last'.outcome = "accepted") =>
          /\ IF last'.delta # 0 /\ last'.above
             THEN /\ last'.scrolledBy = last'.delta
                  /\ container' =
                        ScrollBy(container, last'.delta,
                                 ScrollExtent(rows.totalHeight,
                                              rows.allRows[ParseInt(last'.attr).value + 1],
                                              last'.height))
             ELSE container' = container /\ frame' = frame
          /\ last'.key \in DOMAIN rowSizeCache'
          /\ rowSizeCache'[last'.key] = last'.height]_vars

\* C5: a report, first-paint or resize, of the size the cache already holds
\* for the key changes neither the cache nor the scroll position.
C5_Idempotent ==
    [][(/\ last'.op \in Reports
        /\ last'.key \in DOMAIN rowSizeCache
        /\ rowSizeCache[last'.key] = last'.height) =>
          /\ rowSizeCache' = rowSizeCache
          /\ container' = container
          /\ frame' = frame]_vars

\* C6: a first-paint report for a key the cache already holds is a no-op
\* whatever size it carries: the cache, the scroll position and the resolved
\* slots are left unchanged and no recomputation is requested.
C6_FirstPaintOnce ==
    [][(last'.op = "measureRow" /\ last'.key \in DOMAIN rowSizeCache) =>
          /\ rowSizeCache' = rowSizeCache
          /\ container' = container
          /\ frame' = frame
          /\ rows' = rows
          /\ react'.dirty = react.dirty]_vars

\* a row that re-entered the window reports a size other than its cached one
C6_Witness ==
    /\ last.op = "measureRow"
    /\ last.outcome = "measured"
    /\ last.key \in DOMAIN rowSizeCache
    /\ rowSizeCache[last.key] # last.height

\* every slot carries the key of its index and resolves to the cached size of
\* that key, or to the estimate when the key has no cache entry
SlotsResolved ==
    /\ Len(rows.allRows) = props.rowsCount
    /\ \A i \in 1..Len(rows.allRows) :
          LET key == props.items[i]
          IN  /\ rows.allRows[i].key = key
              /\ rows.allRows[i].height =
                    IF key \in DOMAIN rowSizeCache THEN rowSizeCache[key]
                                                   ELSE props.estimateRowHeight

\* C7: replacing the key function by a permutation of the same keys leaves the
\* cache unchanged; the next recomputation resolves every slot to the cached
\* size of its key at the key's new index and to the estimate only where the
\* key has no entry; registering again an item whose key is cached writes
\* nothing to the cache and adjusts no scroll position.
C7_ReorderStable ==
    [][/\ last'.op = "reorder" => rowSizeCache' = rowSizeCache
       /\ last'.op = "render" => SlotsResolved'
       /\ (last'.op = "measureRow" /\ last'.key \in DOMAIN rowSizeCache) =>
             /\ rowSizeCache' = rowSizeCache
             /\ container'.scrollTop = container.scrollTop
             /\ last'.scrolledBy = 0
             /\ last'.scheduled = 0]_vars

\* the recomputation after a reversal: the measured key resolves to its size
\* at its new index, the unmeasured key to the estimate
C7_Witness ==
    /\ last.op = "render"
    /\ props.items = Reverse(IdentityItems(MaxItems))
    /\ DOMAIN rowSizeCache = {1}
    /\ rowSizeCache[1] = MaxHeight
    /\ rows.allRows[MaxItems].key = 1
    /\ rows.allRows[MaxItems].height = MaxHeight
    /\ rows.allRows[1].height = props.estimateRowHeight

\* the index tag resolves to no slot: missing or unparseable, negative, or
\* at or past the count
Unresolvable(attr, count) ==
    ParseInt(attr).isNaN \/ ParseInt(attr).value \notin 0..(count - 1)

\* C10: a report whose index resolves to no slot is ignored without a fatal
\* failure: the hook stays mounted and the cache and the scroll position are
\* unchanged.
C10_IgnoredReport ==
    [][(last'.op \in Reports /\ Unresolvable(last'.attr, props.rowsCount)) =>
          /\ phase' = "mounted"
          /\ rowSizeCache' = rowSizeCache
          /\ container' = container
          /\ frame' = frame]_vars

-----------------------------------------------------------------------------
(* Properties of the scroll-activity effect and of construction *)

\* C8: from idle, a burst of scroll events with every gap shorter than
\* scrollingDelay makes isScrolling go from false to true once, at the first
\* event, and from true to false once, no earlier than scrollingDelay after
\* the last event of the burst.
C8_Debounce ==
    /\ [](tracker.events >= 1 => tracker.ups = 1)
    /\ [](tracker.downs <= 1)
    /\ [][(tracker.isScrolling /\ ~tracker'.isScrolling) =>
             tracker.elapsed >= props.scrollingDelay]_vars
    /\ (tracker.events >= 1) ~> (~tracker.isScrolling /\ tracker.downs = 1)

\* a burst of several events is over and isScrolling is false again
C8_Witness ==
    /\ tracker.events = MaxBurst
    /\ tracker.ups = 1
    /\ tracker.downs = 1
    /\ ~tracker.isScrolling

\* nothing the hook does after validateProps has happened
NothingRan ==
    /\ rows = NoRows
    /\ cols = NoColumns
    /\ rowSizeCache = <<>>
    /\ AtRest
    /\ observed = <<>>
    /\ frame = <<>>

\* C9: with neither rowHeight nor estimateRowHeight the construction fails
\* before any state is created, anything is subscribed and any window is
\* computed; with at least one of them it does not fail.
C9_SetupValidation ==
    /\ phase = "failed" =>
          (~props.hasRowHeight /\ ~props.hasEstimate /\ NothingRan)
    /\ phase = "mounted" =>
          ((props.hasRowHeight \/ props.hasEstimate) /\ subscribed = Subscriptions
           /\ Len(rows.allRows) = props.rowsCount)

\* a construction over a non-empty sequence has failed
C9_Witness ==
    /\ phase = "failed"
    /\ props.rowsCount > 0
    /\ ~props.hasRowHeight
    /\ ~props.hasEstimate

-----------------------------------------------------------------------------
(* Properties of the observers *)

\* C11: a report for an element that left the document removes the element
\* from the observed elements and changes nothing else, neither the cache nor
\* the scroll position nor a scheduled scroll; and once rows have been
\* unregistered, the observer eventually observes no detached element.
C11_DetachedOnly ==
    [][(last'.op = "resize" /\ last'.outcome = "detached") =>
          /\ \E x \in lingering : x.el = last'.key /\ lingering' = lingering \ {x}
          /\ observed' = observed
          /\ rowSizeCache' = rowSizeCache
          /\ container' = container
          /\ frame' = frame
          /\ react' = react]_vars

C11_Unobserved ==
    (Live /\ lingering # {}) ~> (~Live \/ lingering = {})

C11_DetachedReport == C11_DetachedOnly /\ C11_Unobserved

\* C12: after the teardown of the hook the container's observer and the
\* scroll listeners are gone, the rows' observer observes nothing, and no
\* debounce timeout, no frame-scheduled scroll handler and no scheduled scroll
\* adjustment is pending; no step after it changes isScrolling, the scroll
\* state, the viewport extent or the cache.
C12_Teardown ==
    /\ [](phase = "unmounted" =>
             /\ subscribed = {}
             /\ observed = <<>>
             /\ lingering = {}
             /\ tracker.timers = {}
             /\ frame = <<>>)
    /\ [][phase = "unmounted" =>
             /\ tracker'.isScrolling = tracker.isScrolling
             /\ hookState' = hookState]_vars

-----------------------------------------------------------------------------
(* Properties of the cache *)

\* C13: across reports, recomputations, reorderings and count changes no key
\* leaves the cache; the cache changes only by an accepted report, which
\* sets the entry of its key to the reported size and leaves every other
\* entry alone, so that every value is the size of the last accepted report
\* for its key; and the key of an accepted report is the key of an index
\* that is valid for the count of the render the report was made against.
C13_CacheGrows ==
    [][/\ DOMAIN rowSizeCache \subseteq DOMAIN rowSizeCache'
       /\ (last'.op \in Reports /\ last'.outcome = "accepted") =>
             /\ last'.key \in DOMAIN rowSizeCache'
             /\ rowSizeCache'[last'.key] = last'.height
       /\ rowSizeCache' # rowSizeCache =>
             /\ last'.op \in Reports
             /\ last'.outcome = "accepted"
             /\ \A k \in DOMAIN rowSizeCache' \ {last'.key} :
                   k \in DOMAIN rowSizeCache /\ rowSizeCache'[k] = rowSizeCache[k]
             /\ \E i \in 0..(Len(latestData.allRows) - 1) :
                   /\ IndexAttr(i) = last'.attr
                   /\ latestData.items[i + 1] = last'.key]_vars

\* an accepted report replaces a cached size while the cache holds the key
\* of an item the host has dropped
C13_Witness ==
    /\ last.op = "resize"
    /\ last.outcome = "accepted"
    /\ last.delta # 0
    /\ last.key \in KeySet(rows.allRows)
    /\ props.rowsCount < MaxItems
    /\ \E k \in DOMAIN rowSizeCache :
          /\ \A i \in 1..Len(props.items) : props.items[i] # k
          /\ \A i \in 1..Len(latestData.items) : latestData.items[i] # k

-----------------------------------------------------------------------------
(* Properties of the grid's column window *)

\* the column indices with offset + size > x, and with offset + size >= x
ColumnsPast(all, x) ==
    {i \in 0..(Len(all) - 1) : all[i + 1].offsetLeft + all[i + 1].width > x}
ColumnsReaching(all, x) ==
    {i \in 0..(Len(all) - 1) : all[i + 1].offsetLeft + all[i + 1].width >= x}

\* C14: whatever rowsCount is, when some column reaches scrollLeft + width
\* the grid's columnEndIndex is min(columnsCount - 1, e + overscanX) with e the
\* first such column, every index from columnStartIndex to columnEndIndex is
\* a column index, and every column that covers part of the viewport is in
\* the window and in the rendered slice.
C14_ColumnWindow ==
    LET all == cols.allColumns
        past == ColumnsPast(all, scrollLeft)
        reaching == ColumnsReaching(all, scrollLeft + viewport.width)
        covering == {i \in past : all[i + 1].offsetLeft < scrollLeft + viewport.width}
    IN  (Computed /\ kind = "grid" /\ past # {} /\ reaching # {}) =>
            /\ cols.columnEndIndex =
                  Min(props.columnsCount - 1, Least(reaching) + props.overscanX)
            /\ \A i \in cols.columnStartIndex..cols.columnEndIndex :
                  i \in 0..(props.columnsCount - 1)
            /\ \A i \in covering :
                  /\ cols.columnStartIndex <= i
                  /\ i <= cols.columnEndIndex
                  /\ \E j \in 1..Len(cols.virtualColumns) :
                        cols.virtualColumns[j].index = i

-----------------------------------------------------------------------------
(* Properties of a missing scroll element *)

\* the effects ran in the step: the first commit, or a new accessor
SetupRan == phase = "setup" \/ last'.op = "setup"

C15_NoSetup ==
    [][(SetupRan /\ ~container.present) =>
          /\ subscribed' = {}
          /\ hookState' = hookState
          /\ phase' = "mounted"]_vars

C15_ReportCommits ==
    [][(/\ last'.op \in Reports
        /\ last'.outcome = "accepted"
        /\ last'.delta # 0
        /\ last'.above
        /\ ~container.present) =>
          /\ phase' = "mounted"
          /\ last'.key \in DOMAIN rowSizeCache'
          /\ rowSizeCache'[last'.key] = last'.height]_vars

C15_ObservationBegins ==
    (Live /\ container.present) ~>
        (~Live \/ ~container.present \/ {"resize", "scroll"} \subseteq subscribed)

\* C15: a setup step that runs while getScrollElement() returns null
\* subscribes to nothing, changes no state and does not fail; a report that
\* calls for a scroll adjustment while it returns null still commits its size
\* to the cache and does not fail; and once it returns the element the scroll
\* position and the viewport size come to be observed.
C15_MissingContainer == C15_NoSetup /\ C15_ReportCommits /\ C15_ObservationBegins

-----------------------------------------------------------------------------
(* Properties of the order of compensation and recomputation *)

\* the last step was a report that called for a scroll adjustment, made
\* when the scroll state held the container's offset: the grid has moved the
\* container by the delta since, the list has scheduled the move
Adjusting ==
    /\ last.op \in Reports
    /\ last.outcome = "accepted"
    /\ (last.scrolledBy # 0 \/ last.scheduled # 0)
    /\ container.scrollTop - last.scrolledBy = scrollTop

\* every adjustment asked for has been made and the scroll state holds the
\* container's offset
AdjustmentRecorded ==
    /\ \A i \in 1..Len(frame) : frame[i].op # "scrollBy"
    /\ scrollTop = container.scrollTop

\* C16: a recomputation that follows a report which called for a scroll
\* adjustment, and so reads the newly committed size, runs only when the
\* adjustment has been applied to the container and the resulting offset is
\* in the scroll state.
C16_AdjustBeforeRecompute ==
    [][(Adjusting /\ last'.op = "render") => AdjustmentRecorded]_vars

-----------------------------------------------------------------------------
(* Properties of the snapshot the reports read *)

\* the size a key resolves to, and the offset of the slot at an index of the
\* rendered order, from the cache as it is now
SizeNow(key) ==
    IF key \in DOMAIN rowSizeCache THEN rowSizeCache[key] ELSE props.estimateRowHeight
OffsetNow(index) ==
    SumOf([j \in 1..index |-> SizeNow(latestData.items[j])], 1, index)

\* C17: a report that gets as far as the equal-value check is answered
\* from the cache, the slots and the scroll state as they are when it is
\* made, earlier reports not yet rendered included: it is dropped as unchanged
\* exactly when the cache holds its size for the key, and when accepted its
\* delta is the reported size minus the size the key resolves to and its
\* above-viewport test compares the scroll state with the slot's offset.
C17_CurrentSnapshot ==
    [][(last'.op \in Reports /\ last'.outcome \in {"unchanged", "accepted"}) =>
          LET key == last'.key
              index == ParseInt(last'.attr).value
          IN  /\ (last'.outcome = "unchanged") <=>
                    (key \in DOMAIN rowSizeCache /\ rowSizeCache[key] = last'.height)
              /\ last'.outcome = "accepted" =>
                    /\ last'.delta = last'.height - SizeNow(key)
                    /\ last'.above <=> (scrollTop > OffsetNow(index))]_vars

-----------------------------------------------------------------------------
(* Properties of the rendered window under a correction *)

\* the index of the slot under offset x, -1 when x is past the last slot
TopIndex(all, x) ==
    LET under == {i \in 0..(Len(all) - 1) :
                     all[i + 1].offsetTop <= x /\ x < all[i + 1].offsetTop + all[i + 1].height}
    IN  IF under = {} THEN 0 - 1 ELSE Least(under)

\* C18: when a report corrects the size of a slot whose offset is below the
\* scroll offset and the container has been adjusted, the recomputation from
\* the committed size and the container's new offset leaves the slot under
\* the viewport's top edge the same as before the report, and leaves every
\* later slot at the same distance from the scroll offset.  Looked at for a
\* report made when the scroll state and the snapshot are up to date.
C18_VisualStability ==
    [][(/\ last'.op \in Reports
        /\ last'.outcome = "accepted"
        /\ last'.delta # 0
        /\ last'.above
        /\ last'.scheduled = 0
        /\ latestData.rowSizeCache = rowSizeCache
        /\ latestData.scrollTop = container.scrollTop) =>
          LET before == latestData.allRows
              index == ParseInt(last'.attr).value
              after == RowsMemo(kind, [props EXCEPT !.items = latestData.items],
                                rowSizeCache', container'.scrollTop,
                                viewport.height).allRows
          IN  /\ TopIndex(after, container'.scrollTop) =
                    TopIndex(before, container.scrollTop)
              /\ \A j \in (index + 2)..Len(before) :
                    after[j].offsetTop - container'.scrollTop =
                        before[j].offsetTop - container.scrollTop]_vars

-----------------------------------------------------------------------------
(* Properties of the window of an empty viewport *)

\* the indices of the slots that share a point with the range [from, to]
Overlapping(all, from, to) ==
    {i \in 0..(Len(all) - 1) :
        all[i + 1].offsetTop <= to /\ from <= all[i + 1].offsetTop + all[i + 1].height}

\* C19: with count > 0, a viewport of extent 0, any overscan and a scroll
\* offset from 0 up to but not including the total extent, on a slot boundary
\* or not, the visible slice holds at least one slot and every slot that
\* overlaps [scrollOffset, scrollOffset + viewportExtent] has its index in
\* startIndex..endIndex.
C19_EmptyViewport ==
    (/\ Computed
     /\ props.rowsCount > 0
     /\ viewport.height = 0
     /\ scrollTop < rows.totalHeight) =>
        /\ rows.virtualRows # <<>>
        /\ \A i \in Overlapping(rows.allRows, scrollTop, scrollTop + viewport.height) :
              rows.rowStartIndex <= i /\ i <= rows.rowEndIndex

-----------------------------------------------------------------------------
(* Properties of the scroll listener *)

\* the callbacks of the frame are the throttled scroll handler alone
HandlerDue ==
    /\ frame # <<>>
    /\ \A i \in 1..Len(frame) : frame[i].op = "handleScroll"

\* C20: of the scroll events delivered with no frame in between at most one
\* updates the scroll state, so that the window is recomputed at most once
\* for them; and the scroll state a frame's handler leaves is the container's
\* offset at the last of its events.  For the list and for the grid.
C20_FrameCoalescing ==
    [][/\ (last.op = "scroll" /\ last.outcome = "updated" /\ last'.op = "scroll") =>
             scrollTop' = scrollTop
       /\ (HandlerDue /\ frame' = <<>>) => scrollTop' = container.scrollTop]_vars

-----------------------------------------------------------------------------
(* Properties of the scroll-activity effect under changing props *)

\* C21: while isScrolling is true a debounce timeout is pending, so that
\* isScrolling always returns to false after the last scroll event, also
\* when the effect is set up again or scrollingDelay changes during a burst.
C21_ScrollingEnds ==
    /\ [](tracker.isScrolling => tracker.timers # {})
    /\ tracker.isScrolling ~> ~tracker.isScrolling

-----------------------------------------------------------------------------
(* The two row engines side by side *)

\* C22: the list's row engine and the grid's row engine are one function: on
\* the same count, sizes, cache, scroll offset, viewport and overscan they
\* give the same slots, total extent, start index, end index and slice, also
\* on a slot boundary and with a viewport that reaches past the content.
C22_SameEngine ==
    phase = "rendered" =>
        /\ rows = ListRows(props, rowSizeCache, scrollTop, viewport.height)
        /\ rows = GridRows(props, rowSizeCache, scrollTop, viewport.height)

====
